---- MODULE Spec2Model ----
(***************************************************************************)
(* The DPLL decision procedure of dpll_sat.py as a state machine.          *)
(*                                                                         *)
(* Clause and CNF are Python objects: a Clause owns a mutable set of       *)
(* literals, a CNF owns a set of Clause objects.  Both kinds of object     *)
(* live in a heap indexed by object identity, so that copying (dupe,       *)
(* add_literal) and reassignment (self.clauses = ...) are modelled as what *)
(* they do, and sharing between a formula and its copies is expressible.   *)
(* The recursion dpll -> apply_split -> dpll is an explicit call stack.    *)
(***************************************************************************)
EXTENDS Integers, Sequences, FiniteSets, TLC

\* Variables of the input formula are 1..MaxVar.
MaxVar == 2
\* Bound on the size of the input: the number of integers of its DIMACS
\* body, where a clause is written as its literals and a closing 0.
MaxTokens == 12
\* Bounds on the text parse_dimacs reads: lines, and tokens of a clause line
MaxLines == 5
MaxLineLen == 2
\* Bound on the number of files run_tests.py runs
MaxFiles == 2
\* The interpreter's recursion limit (sys.getrecursionlimit(), 1000 frames
\* by default) on the scale of formulas over MaxVar variables
RecursionLimit == 4

Vars == 1..MaxVar
\* literal: int, non-zero; negative means negated (dpll_sat.py:7-8)
Lits == {l \in -MaxVar..MaxVar : l # 0}
ClauseValues == SUBSET Lits

VARIABLES
    literals,   \* heap of Clause objects: Clause id -> Clause.literals
    clauses,    \* heap of CNF objects:    CNF id    -> CNF.clauses (Clause ids)
    stack,      \* activations of dpll(), innermost last
    ret,        \* value returned by the activation that ended last, or
                \* "raise" when an exception ended the run
    run,        \* 0 while the clause list is built, then the number of the run
    first,      \* verdict of run 1
    input,      \* the clause list the CNF is constructed from (as a set)
    last,       \* position in ClauseSeq of the clause appended last
    op,         \* the last apply_unit / apply_pure call: what it saw and did
    copies,     \* the clauses that occur a second time in the clause list
    num_clauses,\* heap of CNF objects:    CNF id    -> CNF.num_clauses
    recursion_limit, \* the number of frames the interpreter allows
    \* parse_dimacs (parse_dimacs.py)
    parser_state,     \* "INIT" before the problem line, then "PROB"
    declared,         \* num_literals and num_clauses, -1 until assigned
    clause_list,      \* the list `clauses` of parse_dimacs
    current_literals, \* the literals of the clause being read
    bound_literal,    \* the local `literal`: {} while unbound, else {value}
    outcome,          \* "none" while parsing, "returned", or the exception
    nlines,           \* number of lines read
    header_seen,      \* the text read so far holds a problem line
    defects,          \* what makes the text read so far malformed
    groups,           \* the 0-terminated groups of integers read so far
    group,            \* the integers read since the last 0
    midzero,          \* some 0 was not the last token of its line
    \* timeout_wrapper, _worker (timeout.py) and run_test (run_tests.py)
    sup,              \* where the supervisor is in timeout_wrapper
    process,          \* where the worker process is in _worker
    queue,            \* the messages put on the queue and not yet taken
    returned,         \* what func did in the worker: "none" until it ends
    sigterm,          \* terminate() has sent SIGTERM to the worker
    alive_at_join,    \* the worker was alive when join(timeout) returned
    report,           \* what run_test made of the run: "none" until it ends
    test_results      \* the list test_results of run_tests.py

pvars == <<parser_state, declared, clause_list, current_literals,
           bound_literal,
           outcome, nlines, header_seen, defects, groups, group, midzero>>

tvars == <<sup, process, queue, returned, sigterm, alive_at_join, report,
           test_results>>

\* the variables outside the decision procedure
outside == <<recursion_limit, pvars, tvars>>

\* the variables of the decision procedure and of its caller
dvars == <<literals, clauses, stack, ret, run, first, input, last, op,
           copies, num_clauses, recursion_limit>>

vars == <<dvars, pvars, tvars>>

----------------------------------------------------------------------------
\* Helpers on values

Min(S) == CHOOSE x \in S : \A y \in S : x <= y

RECURSIVE SetToSeq(_)
SetToSeq(S) == IF S = {} THEN <<>>
               ELSE LET x == Min(S) IN <<x>> \o SetToSeq(S \ {x})

RECURSIVE EnumSeq(_)
EnumSeq(S) == IF S = {} THEN <<>>
              ELSE LET x == CHOOSE x \in S : TRUE IN <<x>> \o EnumSeq(S \ {x})

\* The number of integers that write F in DIMACS
RECURSIVE Tokens(_)
Tokens(F) == IF F = {} THEN 0
             ELSE LET c == CHOOSE c \in F : TRUE
                  IN Cardinality(c) + 1 + Tokens(F \ {c})

\* The clauses over Lits, in a fixed order
ClauseSeq == EnumSeq(ClauseValues)

----------------------------------------------------------------------------
\* Truth assignments: an assignment is the set of the variables it makes true.

Assignments == SUBSET Vars

Holds(A, l) == IF l > 0 THEN l \in A ELSE (-l) \notin A

Satisfies(A, F) == \A C \in F : \E l \in C : Holds(A, l)

Models(F) == {A \in Assignments : Satisfies(A, F)}

Satisfiable(F) == Models(F) # {}

VarsOf(F) == {IF l > 0 THEN l ELSE -l : l \in UNION F}

----------------------------------------------------------------------------
\* Clause and CNF (dpll_sat.py)

\* The clause set of a CNF as a value: the literal sets of its Clause objects.
Value(lits, ids) == {lits[c] : c \in ids}

\* set(<Clause objects>) for a Clause that is hashed and compared by object
\* identity
SetOf_identity(lits, ids) == {ids}

\* set(<Clause objects>): Clause.__hash__ and __eq__ compare the literal sets,
\* so a set keeps one object per distinct literal set; which one it keeps
\* depends on the insertion order.
SetOf(lits, ids) ==
    IF Cardinality(Value(lits, ids)) = Cardinality(ids)
    THEN {ids}
    ELSE {R \in SUBSET ids :
            \A c \in ids : Cardinality({r \in R : lits[r] = lits[c]}) = 1}

get_literals(lits, cls) == UNION {lits[c] : c \in cls}

is_sat(cls) == Cardinality(cls) = 0

\* is_unsat with all() in place of any()
is_unsat_all(lits, cls) == \A c \in cls : Cardinality(lits[c]) = 0

is_unsat(lits, cls) == \E c \in cls : Cardinality(lits[c]) = 0

\* add_literal that forgets the unit clause: a plain copy of self
add_literal_no_unit(lits, cnfs, self, literal) ==
    LET order    == SetToSeq(cnfs[self])
        n        == Len(lits)
        new_lits == lits \o [i \in 1..Len(order) |-> lits[order[i]]]
        new_clauses == (n + 1)..(n + Len(order))
    IN  {[literals |-> new_lits, clauses |-> Append(cnfs, R),
          new |-> Len(cnfs) + 1, num |-> Cardinality(R)] :
              R \in SetOf(new_lits, new_clauses)}

\* add_literal that adds the unit clause to self.clauses and returns self
add_literal_in_place(lits, cnfs, self, literal) ==
    LET new_lits == Append(lits, {literal})
    IN  {[literals |-> new_lits, clauses |-> [cnfs EXCEPT ![self] = R],
          new |-> self, num |-> Cardinality(R)] :
              R \in SetOf(new_lits, cnfs[self] \cup {Len(lits) + 1})}

\* add_literal: every clause of self is duped into a fresh Clause object, a
\* fresh unit clause {literal} is appended and a fresh CNF is constructed
\* from that list.  Yields every outcome: the heaps after the call and the
\* identity of the new CNF.
add_literal(lits, cnfs, self, literal) ==
    LET order    == SetToSeq(cnfs[self])
        n        == Len(lits)
        new_lits == (lits \o [i \in 1..Len(order) |-> lits[order[i]]])
                        \o <<{literal}>>
        new_clauses == (n + 1)..(n + Len(order) + 1)
    IN  {[literals |-> new_lits, clauses |-> Append(cnfs, R),
          new |-> Len(cnfs) + 1, num |-> Cardinality(R)] :
              R \in SetOf(new_lits, new_clauses)}

\* pure_set that takes the literals whose negation does occur
pure_set_negated(lits, cls) ==
    LET all_literals == get_literals(lits, cls)
    IN  {l \in all_literals : (-l) \in all_literals}

pure_set(lits, cls) ==
    LET all_literals == get_literals(lits, cls)
    IN  {l \in all_literals : (-l) \notin all_literals}

\* apply_pure without the early return, reporting removed_count >= 0
apply_pure_unguarded(lits, cnfs, self) ==
    LET pure == pure_set(lits, cnfs[self])
        clauses_to_keep == {c \in cnfs[self] : lits[c] \cap pure = {}}
        removed_count == Cardinality(cnfs[self]) - Cardinality(clauses_to_keep)
    IN  [clauses |-> [cnfs EXCEPT ![self] = clauses_to_keep],
         result |-> removed_count >= 0]

\* apply_pure that keeps only the clauses that hold a literal, none of it pure
apply_pure_drop_empty(lits, cnfs, self) ==
    LET pure == pure_set(lits, cnfs[self])
        clauses_to_keep == {c \in cnfs[self] : /\ lits[c] \cap pure = {}
                                               /\ lits[c] # {}}
        removed_count == Cardinality(cnfs[self]) - Cardinality(clauses_to_keep)
    IN  IF pure = {}
        THEN [clauses |-> cnfs, result |-> FALSE]
        ELSE [clauses |-> [cnfs EXCEPT ![self] = clauses_to_keep],
              result |-> removed_count > 0]

\* apply_pure: the CNF heap after the call and the boolean returned.
apply_pure(lits, cnfs, self) ==
    LET pure == pure_set(lits, cnfs[self])
        clauses_to_keep == {c \in cnfs[self] : lits[c] \cap pure = {}}
        removed_count == Cardinality(cnfs[self]) - Cardinality(clauses_to_keep)
    IN  IF pure = {}
        THEN [clauses |-> cnfs, result |-> FALSE]
        ELSE [clauses |-> [cnfs EXCEPT ![self] = clauses_to_keep],
              result |-> removed_count > 0]

unit_clauses(lits, cls) == {c \in cls : Cardinality(lits[c]) = 1}

\* (unit_literal,) = unit_clauses[0].literals
UnitLiteral(lits, unit) == CHOOSE l \in lits[unit] : TRUE

\* apply_unit variants: the shape of apply_unit with one case changed
ApplyUnitWith(lits, cnfs, self, unit, dropped, shortened) ==
    LET unit_literal == UnitLiteral(lits, unit)
        others     == {c \in cnfs[self] : lits[c] # lits[unit]}
        kept       == {c \in others : ~dropped[c]}
        simplified == {c \in kept : shortened[c]}
        order      == SetToSeq(simplified)
        n          == Len(lits)
        new_lits   == lits \o [i \in 1..Len(order) |->
                                   lits[order[i]] \ {-unit_literal}]
        new_clauses == (kept \ simplified) \cup ((n + 1)..(n + Len(order)))
    IN  {[literals |-> new_lits,
          clauses  |-> [cnfs EXCEPT ![self] = R],
          result   |-> TRUE] : R \in SetOf(new_lits, new_clauses)}

\* apply_unit that keeps the clauses the unit literal satisfies
apply_unit_keep_satisfied(lits, cnfs, self, unit) ==
    LET u == UnitLiteral(lits, unit)
    IN  ApplyUnitWith(lits, cnfs, self, unit,
            [c \in cnfs[self] |-> FALSE],
            [c \in cnfs[self] |-> u \notin lits[c] /\ (-u) \in lits[c]])

\* apply_unit that leaves the negated unit literal in the other clauses
apply_unit_keep_negated(lits, cnfs, self, unit) ==
    LET u == UnitLiteral(lits, unit)
    IN  ApplyUnitWith(lits, cnfs, self, unit,
            [c \in cnfs[self] |-> u \in lits[c]],
            [c \in cnfs[self] |-> FALSE])

\* apply_unit that removes the clauses holding the negated unit literal too
apply_unit_drop_negated(lits, cnfs, self, unit) ==
    LET u == UnitLiteral(lits, unit)
    IN  ApplyUnitWith(lits, cnfs, self, unit,
            [c \in cnfs[self] |-> u \in lits[c] \/ (-u) \in lits[c]],
            [c \in cnfs[self] |-> FALSE])

\* apply_unit with unit_clauses[0] = unit.  Yields every outcome: the heaps
\* after the call and the boolean returned.  A clause holding the negated
\* unit literal is duped and the copy is shortened; the new clause set is
\* built by set.add.
apply_unit(lits, cnfs, self, unit) ==
    LET unit_literal == UnitLiteral(lits, unit)
        others     == {c \in cnfs[self] : lits[c] # lits[unit]}
        simplified == {c \in others : /\ unit_literal \notin lits[c]
                                      /\ (-unit_literal) \in lits[c]}
        unaffected == {c \in others : /\ unit_literal \notin lits[c]
                                      /\ (-unit_literal) \notin lits[c]}
        order      == SetToSeq(simplified)
        n          == Len(lits)
        new_lits   == lits \o [i \in 1..Len(order) |->
                                   lits[order[i]] \ {-unit_literal}]
        new_clauses == unaffected \cup ((n + 1)..(n + Len(order)))
    IN  {[literals |-> new_lits,
          clauses  |-> [cnfs EXCEPT ![self] = R],
          result   |-> TRUE] : R \in SetOf(new_lits, new_clauses)}

----------------------------------------------------------------------------
\* The text read by parse_dimacs: a line is the sequence of its tokens, with
\* trailing whitespace removed and no leading whitespace.

BodyTokens == {"1", "-1", "0", "x"}

BlankLine == <<>>
CommentLine == <<"c">>
ProblemLines == {<<"p", "cnf", "2", "2">>, <<"p", "cnf", "x", "2">>,
                 <<"p", "cnf", "2", "x">>, <<"p", "cnf", "2">>}
ClauseLines == UNION {[1..n -> BodyTokens] : n \in 1..MaxLineLen}
Lines == {BlankLine, CommentLine} \cup ProblemLines \cup ClauseLines

\* line[0]: the first character of a line that is not empty
FirstChar(line) ==
    CASE line[1] \in {"c", "cnf"} -> "c"
      [] line[1] = "-1" -> "-"
      [] OTHER -> line[1]

\* int(s) returns for these strings and raises ValueError for the others
IsInt(s) == s \in {"0", "1", "2", "-1"}

IntOf(s) ==
    CASE s = "0" -> 0
      [] s = "1" -> 1
      [] s = "2" -> 2
      [] s = "-1" -> -1

\* the loop over the tokens of a clause line, from position index on;
\* st holds the locals literals, final_line and literal, and the exception
\* raised, if any.  A token that int() rejects is reported by print() only,
\* and literals.add(literal) then uses the binding literal had before.
RECURSIVE ScanTokens(_, _, _)
ScanTokens(literal_strs, index, st) ==
    IF st.error # "none" \/ index > Len(literal_strs) THEN st
    ELSE IF literal_strs[index] = "0"
    THEN IF index # Len(literal_strs)
         THEN [st EXCEPT !.error = "AssertionError"]
         ELSE ScanTokens(literal_strs, index + 1,
                         [st EXCEPT !.final_line = TRUE])
    ELSE LET bound == IF IsInt(literal_strs[index])
                      THEN {IntOf(literal_strs[index])}
                      ELSE st.literal
         IN  IF bound = {}
             THEN [st EXCEPT !.error = "UnboundLocalError"]
             ELSE ScanTokens(literal_strs, index + 1,
                             [st EXCEPT !.literal = bound,
                                        !.literals = @ \cup bound])

\* What the text says, read token by token without regard to lines: the
\* groups of integers closed by a 0, the integers after the last 0, and
\* whether a 0 stood before the end of a line.
RECURSIVE ReadGroups(_, _, _)
ReadGroups(strs, index, g) ==
    IF index > Len(strs) THEN g
    ELSE IF strs[index] = "0"
    THEN ReadGroups(strs, index + 1,
             [groups |-> Append(g.groups, g.group), group |-> {},
              midzero |-> g.midzero \/ index # Len(strs)])
    ELSE ReadGroups(strs, index + 1,
             IF IsInt(strs[index])
             THEN [g EXCEPT !.group = @ \cup {IntOf(strs[index])}]
             ELSE g)

----------------------------------------------------------------------------
\* The call stack of dpll()

Top == stack[Len(stack)]

Pop(s) == SubSeq(s, 1, Len(s) - 1)

SetTop(s, f) == [s EXCEPT ![Len(s)] = f]

\* The frames of the activations s: every activation of dpll() is called
\* from apply_split of the one below it, or calls a method of its own.
Frames(s) == 2 * Len(s)

\* op records one call: its name, the clause set before and after it, the
\* unit literal or the pure literals it used, the boolean it returned and the
\* clause set its activation of dpll() started from.
NoOp == [name |-> "none", before |-> {}, after |-> {}, lits |-> {},
         result |-> FALSE, entry_F |-> {}]

\* A fresh activation of dpll() on CNF object self.  units and pures count
\* the apply_unit and apply_pure calls of this activation that returned True;
\* entry_F and split_F record the clause set on entry and at the split.
Call(lits, cnfs, self) ==
    [self |-> self, pc |-> "unit", split_literal |-> 0,
     units |-> 0, pures |-> 0,
     entry_F |-> Value(lits, cnfs[self]),
     split_F |-> {}]

\* CNF(clauses) for a list of fresh Clause objects, one per entry of list:
\* self.clauses = set(clauses), and num_clauses defaults to len(self.clauses).
\* Yields every outcome, as the heaps that hold the new objects only.
Construct(list) ==
    {[literals |-> list, clauses |-> <<R>>, num_clauses |-> <<Cardinality(R)>>] :
        R \in SetOf(list, 1..Len(list))}

\* The clause list of the caller: each clause once, then the repeated ones
ClauseList == EnumSeq(input) \o EnumSeq(copies)

\* nothing has been constructed, parsed or run
Constructed ==
    /\ input = {}
    /\ last = 0
    /\ literals = <<>>
    /\ clauses = <<>>
    /\ stack = <<>>
    /\ ret = "none"
    /\ run = 0
    /\ first = "none"
    /\ op = NoOp
    /\ copies = {}
    /\ num_clauses = <<>>
    /\ parser_state = "INIT"
    /\ declared = [num_literals |-> -1, num_clauses |-> -1]
    /\ clause_list = <<>>
    /\ current_literals = {}
    /\ bound_literal = {}
    /\ outcome = "none"
    /\ nlines = 0
    /\ header_seen = FALSE
    /\ defects = {}
    /\ groups = <<>>
    /\ group = {}
    /\ midzero = FALSE
    /\ sup = "idle"
    /\ process = "none"
    /\ queue = <<>>
    /\ returned = "none"
    /\ sigterm = FALSE
    /\ alive_at_join = FALSE
    /\ report = "none"
    /\ test_results = <<>>

\* the interpreter starts with its default recursion limit
Init == Constructed /\ recursion_limit = 1000

\* the interpreter starts with a recursion limit that the nested splits of
\* the formulas can exceed
DeepInit == Constructed /\ recursion_limit = RecursionLimit

\* clauses.append(Clause(...)): the caller builds the clause list.  CNF keeps
\* the set of the list, so the clauses are appended in the order of ClauseSeq,
\* each at most once.
AppendClause ==
    /\ run = 0
    /\ \E i \in (last + 1)..Len(ClauseSeq) :
          /\ Cardinality(ClauseSeq[i]) + 1
                <= MaxTokens - Tokens(input) - Tokens(copies)
          /\ input' = input \cup {ClauseSeq[i]}
          /\ last' = i
    /\ UNCHANGED <<literals, clauses, stack, ret, run, first, op,
                   copies, num_clauses>>
    /\ UNCHANGED outside

\* clauses.append(Clause(...)) with the literals of a clause of the list
AppendCopy ==
    /\ run = 0
    /\ \E c \in input \ copies :
          /\ Cardinality(c) + 1 <= MaxTokens - Tokens(input) - Tokens(copies)
          /\ copies' = copies \cup {c}
    /\ UNCHANGED <<literals, clauses, stack, ret, run, first, input, last, op,
                   num_clauses>>
    /\ UNCHANGED outside

\* cnf = CNF(clauses); cnf.dpll()
Start ==
    /\ run = 0
    /\ run' = 1
    /\ \E out \in Construct(ClauseList) :
          /\ literals' = out.literals
          /\ clauses' = out.clauses
          /\ num_clauses' = out.num_clauses
          /\ stack' = <<Call(out.literals, out.clauses, 1)>>
    /\ UNCHANGED <<ret, first, input, last, op, copies>>
    /\ UNCHANGED outside

\* the propagation loop without its is_unsat() check
PropagateUnit_unchecked ==
    /\ stack # <<>> /\ Top.pc = "unit"
    /\ \E unit \in unit_clauses(literals, clauses[Top.self]) :
       \E out \in apply_unit(literals, clauses, Top.self, unit) :
          /\ literals' = out.literals
          /\ clauses' = out.clauses
          /\ op' = [name |-> "apply_unit",
                    before |-> Value(literals, clauses[Top.self]),
                    after |-> Value(out.literals, out.clauses[Top.self]),
                    lits |-> {UnitLiteral(literals, unit)},
                    result |-> out.result, entry_F |-> Top.entry_F]
          /\ stack' = SetTop(stack, [Top EXCEPT !.units = @ + 1])
          /\ ret' = ret
    /\ UNCHANGED <<run, first, input, last, copies, num_clauses>>
    /\ UNCHANGED outside

\* the propagation loop that leaves the loop on is_unsat() and goes on
PropagateUnit_break ==
    /\ stack # <<>> /\ Top.pc = "unit"
    /\ \E unit \in unit_clauses(literals, clauses[Top.self]) :
       \E out \in apply_unit(literals, clauses, Top.self, unit) :
          /\ literals' = out.literals
          /\ clauses' = out.clauses
          /\ op' = [name |-> "apply_unit",
                    before |-> Value(literals, clauses[Top.self]),
                    after |-> Value(out.literals, out.clauses[Top.self]),
                    lits |-> {UnitLiteral(literals, unit)},
                    result |-> out.result, entry_F |-> Top.entry_F]
          /\ IF is_unsat(out.literals, out.clauses[Top.self])
             THEN /\ stack' = SetTop(stack, [Top EXCEPT !.units = @ + 1,
                                                     !.pc = "pure"])
                  /\ ret' = ret
             ELSE /\ stack' = SetTop(stack, [Top EXCEPT !.units = @ + 1])
                  /\ ret' = ret
    /\ UNCHANGED <<run, first, input, last, copies, num_clauses>>
    /\ UNCHANGED outside

\* `if self.apply_unit()` in place of the loop: one propagation at most
PropagateUnit_once ==
    /\ stack # <<>> /\ Top.pc = "unit"
    /\ \E unit \in unit_clauses(literals, clauses[Top.self]) :
       \E out \in apply_unit(literals, clauses, Top.self, unit) :
          /\ literals' = out.literals
          /\ clauses' = out.clauses
          /\ op' = [name |-> "apply_unit",
                    before |-> Value(literals, clauses[Top.self]),
                    after |-> Value(out.literals, out.clauses[Top.self]),
                    lits |-> {UnitLiteral(literals, unit)},
                    result |-> out.result, entry_F |-> Top.entry_F]
          /\ IF is_unsat(out.literals, out.clauses[Top.self])
             THEN /\ stack' = Pop(stack)
                  /\ ret' = "False"
             ELSE /\ stack' = SetTop(stack, [Top EXCEPT !.units = @ + 1,
                                                     !.pc = "pure"])
                  /\ ret' = ret
    /\ UNCHANGED <<run, first, input, last, copies, num_clauses>>
    /\ UNCHANGED outside

\* while self.apply_unit(): if self.is_unsat(): return False
\* The unpacking (unit_literal,) = unit_clauses[0].literals raises ValueError
\* unless the clause holds exactly one literal; an exception ends every
\* activation of dpll().
PropagateUnit ==
    /\ stack # <<>> /\ Top.pc = "unit"
    /\ \E unit \in unit_clauses(literals, clauses[Top.self]) :
       IF Cardinality(literals[unit]) # 1
       THEN /\ stack' = <<>>
            /\ ret' = "raise"
            /\ UNCHANGED <<literals, clauses, op>>
       ELSE
       \E out \in apply_unit(literals, clauses, Top.self, unit) :
          /\ literals' = out.literals
          /\ clauses' = out.clauses
          /\ op' = [name |-> "apply_unit",
                    before |-> Value(literals, clauses[Top.self]),
                    after |-> Value(out.literals, out.clauses[Top.self]),
                    lits |-> {UnitLiteral(literals, unit)},
                    result |-> out.result, entry_F |-> Top.entry_F]
          /\ IF is_unsat(out.literals, out.clauses[Top.self])
             THEN /\ stack' = Pop(stack)
                  /\ ret' = "False"
             ELSE /\ stack' = SetTop(stack, [Top EXCEPT !.units = @ + 1])
                  /\ ret' = ret
    /\ UNCHANGED <<run, first, input, last, copies, num_clauses>>
    /\ UNCHANGED outside

\* apply_unit finds no unit clause and returns False: the loop ends
NoUnit ==
    /\ stack # <<>> /\ Top.pc = "unit"
    /\ unit_clauses(literals, clauses[Top.self]) = {}
    /\ op' = [name |-> "apply_unit",
              before |-> Value(literals, clauses[Top.self]),
              after |-> Value(literals, clauses[Top.self]),
              lits |-> {}, result |-> FALSE, entry_F |-> Top.entry_F]
    /\ stack' = SetTop(stack, [Top EXCEPT !.pc = "pure"])
    /\ UNCHANGED <<literals, clauses, ret, run, first, input, last,
                   copies, num_clauses>>
    /\ UNCHANGED outside

\* while self.apply_pure(): pass
EliminatePure ==
    /\ stack # <<>> /\ Top.pc = "pure"
    /\ LET out == apply_pure(literals, clauses, Top.self)
       IN  /\ clauses' = out.clauses
           /\ op' = [name |-> "apply_pure",
                     before |-> Value(literals, clauses[Top.self]),
                     after |-> Value(literals, out.clauses[Top.self]),
                     lits |-> pure_set(literals, clauses[Top.self]),
                     result |-> out.result, entry_F |-> Top.entry_F]
           /\ stack' = SetTop(stack,
                  IF out.result THEN [Top EXCEPT !.pures = @ + 1]
                  ELSE [Top EXCEPT !.pc = "base"])
    /\ UNCHANGED <<literals, ret, run, first, input, last,
                   copies, num_clauses>>
    /\ UNCHANGED outside

\* if self.is_sat(): return True
ReturnSat ==
    /\ stack # <<>> /\ Top.pc = "base"
    /\ is_sat(clauses[Top.self])
    /\ stack' = Pop(stack)
    /\ ret' = "True"
    /\ UNCHANGED <<literals, clauses, run, first, input, last, op,
                   copies, num_clauses>>
    /\ UNCHANGED outside

\* if self.is_unsat(): return False
ReturnUnsat ==
    /\ stack # <<>> /\ Top.pc = "base"
    /\ ~is_sat(clauses[Top.self])
    /\ is_unsat(literals, clauses[Top.self])
    /\ stack' = Pop(stack)
    /\ ret' = "False"
    /\ UNCHANGED <<literals, clauses, run, first, input, last, op,
                   copies, num_clauses>>
    /\ UNCHANGED outside

\* apply_split up to its first recursive call; the call raises
\* RecursionError when its frames exceed the recursion limit, and the
\* exception ends every activation of dpll():
\* split_literal = choice(tuple(literals)); self.add_literal(split_literal).dpll()
Split ==
    /\ stack # <<>> /\ Top.pc = "base"
    /\ ~is_sat(clauses[Top.self])
    /\ ~is_unsat(literals, clauses[Top.self])
    /\ IF get_literals(literals, clauses[Top.self]) = {}
       THEN /\ stack' = Pop(stack)
            /\ ret' = "False"
            /\ UNCHANGED <<literals, clauses, num_clauses>>
       ELSE IF Frames(stack) + 2 > recursion_limit
       THEN /\ stack' = <<>>
            /\ ret' = "raise"
            /\ UNCHANGED <<literals, clauses, num_clauses>>
       ELSE \E split_literal \in get_literals(literals, clauses[Top.self]) :
            \E out \in add_literal(literals, clauses, Top.self, split_literal) :
               /\ literals' = out.literals
               /\ clauses' = out.clauses
               /\ num_clauses' = Append(num_clauses, out.num)
               /\ stack' = Append(
                      SetTop(stack, [Top EXCEPT
                          !.pc = "first",
                          !.split_literal = split_literal,
                          !.split_F = Value(literals, clauses[Top.self])]),
                      Call(out.literals, out.clauses, out.new))
               /\ ret' = "none"
    /\ UNCHANGED <<run, first, input, last, op, copies>>
    /\ UNCHANGED outside

\* apply_split that returns what its first branch returned
FirstReturned_only ==
    /\ stack # <<>> /\ Top.pc = "first" /\ ret # "none"
    /\ stack' = Pop(stack)
    /\ UNCHANGED <<literals, clauses, ret, run, first, input, last, op,
                   copies, num_clauses>>
    /\ UNCHANGED outside

\* apply_split that evaluates both branches before it combines them
FirstReturned_both ==
    /\ stack # <<>> /\ Top.pc = "first" /\ ret # "none"
    /\ \E out \in add_literal(literals, clauses, Top.self, -Top.split_literal) :
          /\ literals' = out.literals
          /\ clauses' = out.clauses
          /\ num_clauses' = Append(num_clauses, out.num)
          /\ stack' = Append(
                 SetTop(stack, [Top EXCEPT !.pc = IF ret = "True" THEN "won"
                                                 ELSE "second"]),
                 Call(out.literals, out.clauses, out.new))
          /\ ret' = "none"
    /\ UNCHANGED <<run, first, input, last, op, copies>>
    /\ UNCHANGED outside

\* the first operand of `or` has returned: True ends apply_split, False
\* evaluates the second operand self.add_literal(-split_literal).dpll()
FirstReturned ==
    /\ stack # <<>> /\ Top.pc = "first" /\ ret # "none"
    /\ IF ret = "True"
       THEN /\ stack' = Pop(stack)
            /\ UNCHANGED <<literals, clauses, ret, num_clauses>>
       ELSE \E out \in add_literal(literals, clauses, Top.self,
                                   -Top.split_literal) :
               /\ literals' = out.literals
               /\ clauses' = out.clauses
               /\ num_clauses' = Append(num_clauses, out.num)
               /\ stack' = Append(
                      SetTop(stack, [Top EXCEPT !.pc = "second"]),
                      Call(out.literals, out.clauses, out.new))
               /\ ret' = "none"
    /\ UNCHANGED <<run, first, input, last, op, copies>>
    /\ UNCHANGED outside

\* the second operand has returned: its value is the value of apply_split
SecondReturned ==
    /\ stack # <<>> /\ Top.pc = "second" /\ ret # "none"
    /\ stack' = Pop(stack)
    /\ UNCHANGED <<literals, clauses, ret, run, first, input, last, op,
                   copies, num_clauses>>
    /\ UNCHANGED outside

Done == run > 0 /\ stack = <<>> /\ ret # "none"

\* The same clause list is decided again, from freshly constructed objects.
Again ==
    /\ Done /\ run = 1
    /\ run' = 2
    /\ first' = ret
    /\ \E out \in Construct(EnumSeq(input)) :
          /\ literals' = out.literals
          /\ clauses' = out.clauses
          /\ num_clauses' = out.num_clauses
          /\ stack' = <<Call(out.literals, out.clauses, 1)>>
    /\ ret' = "none"
    /\ op' = NoOp
    /\ UNCHANGED <<input, last, copies>>
    /\ UNCHANGED outside

Next ==
    \/ AppendClause
    \/ Start
    \/ PropagateUnit
    \/ NoUnit
    \/ EliminatePure
    \/ ReturnSat
    \/ ReturnUnsat
    \/ Split
    \/ FirstReturned
    \/ SecondReturned

Spec == Init /\ [][Next]_vars

\* dpll() is sequential code: a step that can be taken is taken.
FairSpec == Spec /\ WF_vars(Next)

\* dpll() under a recursion limit that nested splits exceed
DeepSpec == DeepInit /\ [][Next]_vars

\* Two runs on one clause list
TwoRuns == Init /\ [][Next \/ Again]_vars

\* CNF(clauses) for the clause list without its repetitions, and dpll()
Deduplicated == copies # {} /\ Again

\* A clause list with repeated clauses is decided, then the list without
\* the repetitions
WithCopies == Init /\ [][Next \/ AppendCopy \/ Deduplicated]_vars

----------------------------------------------------------------------------
\* parse_dimacs: one step per line of the file, and one for the end of it

\* a blank line or a comment line: continue
SkipLine ==
    /\ outcome = "none" /\ nlines < MaxLines
    /\ \E line \in Lines :
          IF line = BlankLine THEN TRUE ELSE FirstChar(line) = "c"
    /\ nlines' = nlines + 1
    /\ UNCHANGED <<parser_state, declared, clause_list, current_literals,
                   bound_literal, outcome, header_seen, defects, groups,
                   group, midzero, dvars, tvars>>

\* a line read in state INIT.  A count that int() rejects is reported by
\* print() only: num_literals or num_clauses keeps -1 and parsing goes on.
ProblemLine ==
    /\ outcome = "none" /\ nlines < MaxLines
    /\ parser_state = "INIT"
    /\ \E line \in Lines :
          /\ line # BlankLine /\ FirstChar(line) # "c"
          /\ IF line[1] = "p"
             THEN /\ header_seen' = TRUE
                  /\ defects' = defects \cup
                        (IF Len(line) # 4 \/ line[2] # "cnf"
                         THEN {"header_fields"}
                         ELSE IF ~IsInt(line[3]) \/ ~IsInt(line[4])
                         THEN {"header_count"} ELSE {})
             ELSE /\ header_seen' = header_seen
                  /\ defects' = defects \cup {"header_missing"}
          /\ IF FirstChar(line) # "p"
             THEN /\ outcome' = "ValueError"
                  /\ UNCHANGED <<parser_state, declared>>
             ELSE IF Len(line) # 4 \/ line[1] # "p" \/ line[2] # "cnf"
             THEN /\ outcome' = "AssertionError"
                  /\ UNCHANGED <<parser_state, declared>>
             ELSE /\ declared' =
                        [num_literals |-> IF IsInt(line[3]) THEN IntOf(line[3])
                                          ELSE declared.num_literals,
                         num_clauses  |-> IF IsInt(line[4]) THEN IntOf(line[4])
                                          ELSE declared.num_clauses]
                  /\ parser_state' = "PROB"
                  /\ outcome' = outcome
    /\ nlines' = nlines + 1
    /\ UNCHANGED <<clause_list, current_literals, bound_literal, groups,
                   group, midzero, dvars, tvars>>

\* a clause line without current_literals.clear()
ClauseLine_no_clear ==
    /\ outcome = "none" /\ nlines < MaxLines
    /\ parser_state = "PROB"
    /\ \E line \in Lines :
          /\ line # BlankLine /\ FirstChar(line) # "c"
          /\ LET st == ScanTokens(line, 1,
                         [literals |-> {}, final_line |-> FALSE,
                          literal |-> bound_literal, error |-> "none"])
                 g  == ReadGroups(line, 1,
                         [groups |-> groups, group |-> group,
                          midzero |-> midzero])
                 merged == current_literals \cup st.literals
             IN  /\ groups' = g.groups
                 /\ group' = g.group
                 /\ midzero' = g.midzero
                 /\ defects' = defects \cup
                       (IF \E i \in 1..Len(line) : ~IsInt(line[i])
                        THEN {"bad_literal"} ELSE {})
                 /\ IF st.error # "none"
                    THEN /\ outcome' = st.error
                         /\ UNCHANGED <<clause_list, current_literals,
                                        bound_literal>>
                    ELSE /\ outcome' = outcome
                         /\ bound_literal' = st.literal
                         /\ IF st.final_line
                            THEN /\ clause_list' = Append(clause_list, merged)
                                 /\ current_literals' = merged
                            ELSE /\ clause_list' = clause_list
                                 /\ current_literals' = merged
    /\ nlines' = nlines + 1
    /\ UNCHANGED <<parser_state, declared, header_seen, dvars, tvars>>

\* a line read in state PROB: its literals join current_literals, and a
\* final 0 appends Clause(current_literals), which copies the set, and
\* clears current_literals
ClauseLine ==
    /\ outcome = "none" /\ nlines < MaxLines
    /\ parser_state = "PROB"
    /\ \E line \in Lines :
          /\ line # BlankLine /\ FirstChar(line) # "c"
          /\ LET st == ScanTokens(line, 1,
                         [literals |-> {}, final_line |-> FALSE,
                          literal |-> bound_literal, error |-> "none"])
                 g  == ReadGroups(line, 1,
                         [groups |-> groups, group |-> group,
                          midzero |-> midzero])
                 merged == current_literals \cup st.literals
             IN  /\ groups' = g.groups
                 /\ group' = g.group
                 /\ midzero' = g.midzero
                 /\ defects' = defects \cup
                       (IF \E i \in 1..Len(line) : ~IsInt(line[i])
                        THEN {"bad_literal"} ELSE {})
                 /\ IF st.error # "none"
                    THEN /\ outcome' = st.error
                         /\ UNCHANGED <<clause_list, current_literals,
                                        bound_literal>>
                    ELSE /\ outcome' = outcome
                         /\ bound_literal' = st.literal
                         /\ IF st.final_line
                            THEN /\ clause_list' = Append(clause_list, merged)
                                 /\ current_literals' = {}
                            ELSE /\ clause_list' = clause_list
                                 /\ current_literals' = merged
    /\ nlines' = nlines + 1
    /\ UNCHANGED <<parser_state, declared, header_seen, dvars, tvars>>

\* the end of the file: a clause left open is an error, otherwise
\* CNF(clauses, num_literals, num_clauses) is returned
EndOfFile ==
    /\ outcome = "none"
    /\ defects' = (defects \cup (IF group # {} THEN {"unterminated"} ELSE {}))
                      \cup (IF header_seen THEN {} ELSE {"header_missing"})
    /\ outcome' = IF current_literals # {} THEN "ValueError" ELSE "returned"
    /\ UNCHANGED <<parser_state, declared, clause_list, current_literals,
                   bound_literal, nlines, header_seen, groups, group, midzero,
                   dvars, tvars>>

ParseNext ==
    \/ SkipLine
    \/ ProblemLine
    \/ ClauseLine
    \/ EndOfFile

ParseSpec == Init /\ [][ParseNext]_vars

----------------------------------------------------------------------------
\* run_tests.py, timeout_wrapper and _worker: the supervisor and the worker
\* process it spawns for each file

Alive == process \in {"running", "putting", "exiting"}

\* run_test calls timeout_wrapper: a fresh queue, process.start(), and the
\* supervisor enters process.join(timeout_seconds)
StartWorker ==
    /\ sup = "idle" /\ Len(test_results) < MaxFiles
    /\ sup' = "join"
    /\ process' = "running"
    /\ queue' = <<>>
    /\ returned' = "none"
    /\ sigterm' = FALSE
    /\ alive_at_join' = FALSE
    /\ report' = "none"
    /\ UNCHANGED <<test_results, dvars, pvars>>

\* func(*args, **kwargs) ends in the worker: dpll() returns a boolean or
\* raises
WorkerFinish ==
    /\ process = "running"
    /\ \E r \in {"True", "False", "exception"} : returned' = r
    /\ process' = "putting"
    /\ UNCHANGED <<sup, queue, sigterm, alive_at_join, report, test_results,
                   dvars, pvars>>

\* func(*args, **kwargs) ends in the worker with a result, or an exception,
\* that pickle cannot serialise (a lock, a generator, an open file)
WorkerFinishUnpicklable ==
    /\ process = "running"
    /\ returned' = "unpicklable"
    /\ process' = "putting"
    /\ UNCHANGED <<sup, queue, sigterm, alive_at_join, report, test_results,
                   dvars, pvars>>

\* queue.put((True, result)), or queue.put((False, (e, tb))) in the handler.
\* put() hands the object to the feeder thread of the queue and returns; the
\* feeder thread pickles it and writes it into the pipe, and drops it when
\* pickling fails, an error that is not raised in _worker.  A boolean fits
\* into the pipe of the queue; the pickled exception and traceback text may
\* be larger than the pipe's capacity.
WorkerPut ==
    /\ process = "putting"
    /\ IF returned = "unpicklable"
       THEN queue' = queue
       ELSE \E large \in (IF returned = "exception" THEN BOOLEAN
                                                     ELSE {FALSE}) :
               queue' = Append(queue, [success |-> returned # "exception",
                                       payload |-> returned,
                                       large   |-> large])
    /\ process' = "exiting"
    /\ UNCHANGED <<sup, returned, sigterm, alive_at_join, report,
                   test_results, dvars, pvars>>

\* _worker returns and the worker process ends, once the feeder thread of
\* the queue has written the message into the pipe: a message larger than
\* the pipe is written completely only while the other end is read
WorkerExit ==
    /\ process = "exiting"
    /\ \A i \in 1..Len(queue) : ~queue[i].large
    /\ process' = "exited"
    /\ UNCHANGED <<sup, queue, returned, sigterm, alive_at_join, report,
                   test_results, dvars, pvars>>

\* SIGTERM ends the worker wherever it is
WorkerKilled ==
    /\ sigterm /\ Alive
    /\ process' = "terminated"
    /\ UNCHANGED <<sup, queue, returned, sigterm, alive_at_join, report,
                   test_results, dvars, pvars>>

\* process.join(timeout_seconds) returns because the worker has ended
JoinReturns ==
    /\ sup = "join" /\ ~Alive
    /\ sup' = "is_alive"
    /\ alive_at_join' = FALSE
    /\ UNCHANGED <<process, queue, returned, sigterm, report, test_results,
                   dvars, pvars>>

\* process.join(timeout_seconds) returns because the deadline has passed
JoinTimesOut ==
    /\ sup = "join" /\ Alive
    /\ sup' = "is_alive"
    /\ alive_at_join' = TRUE
    /\ UNCHANGED <<process, queue, returned, sigterm, report, test_results,
                   dvars, pvars>>

\* if process.is_alive()
CheckAlive ==
    /\ sup = "is_alive"
    /\ sup' = IF Alive THEN "terminate" ELSE "get"
    /\ UNCHANGED <<process, queue, returned, sigterm, alive_at_join, report,
                   test_results, dvars, pvars>>

\* process.terminate(); the supervisor enters process.join()
Terminate ==
    /\ sup = "terminate"
    /\ sigterm' = TRUE
    /\ sup' = "join2"
    /\ UNCHANGED <<process, queue, returned, alive_at_join, report,
                   test_results, dvars, pvars>>

\* a timeout_wrapper that raises TimeoutError without process.join()
RaiseTimeout_no_join ==
    /\ sup = "join2"
    /\ report' = "TIMEOUT"
    /\ test_results' = Append(test_results, "TIMEOUT")
    /\ sup' = "idle"
    /\ UNCHANGED <<process, queue, returned, sigterm, alive_at_join,
                   dvars, pvars>>

\* process.join() returns, TimeoutError is raised, and run_test catches it
\* and returns TestResult.TIMEOUT
RaiseTimeout ==
    /\ sup = "join2" /\ ~Alive
    /\ report' = "TIMEOUT"
    /\ test_results' = Append(test_results, "TIMEOUT")
    /\ sup' = "idle"
    /\ UNCHANGED <<process, queue, returned, sigterm, alive_at_join,
                   dvars, pvars>>

\* success, payload = queue.get(): on success run_test returns SAT or UNSAT
\* by the payload; otherwise FunctionException is raised, which run_test
\* does not catch, and run_tests.py ends
Get ==
    /\ sup = "get" /\ queue # <<>>
    /\ queue' = Tail(queue)
    /\ IF Head(queue).success
       THEN /\ report' = IF Head(queue).payload = "True" THEN "SAT"
                                                         ELSE "UNSAT"
            /\ test_results' = Append(test_results, report')
            /\ sup' = "idle"
       ELSE /\ report' = "FunctionException"
            /\ test_results' = test_results
            /\ sup' = "crashed"
    /\ UNCHANGED <<process, returned, sigterm, alive_at_join, dvars, pvars>>

RunNext ==
    \/ StartWorker
    \/ WorkerFinish
    \/ WorkerPut
    \/ WorkerExit
    \/ WorkerKilled
    \/ JoinReturns
    \/ JoinTimesOut
    \/ CheckAlive
    \/ Terminate
    \/ RaiseTimeout
    \/ Get

RunSpec == Init /\ [][RunNext]_vars

\* timeout_wrapper is sequential code, the deadline of join(timeout_seconds)
\* passes, and a SIGTERM sent to the worker is delivered.  Nothing makes
\* func end (WorkerFinish), and nothing is assumed of the worker's own
\* progress after it.
Fairness ==
    /\ WF_vars(JoinReturns \/ JoinTimesOut \/ CheckAlive \/ Terminate
                  \/ RaiseTimeout \/ Get)
    /\ WF_vars(WorkerKilled)

\* run_test: func is dpll(), whose boolean and whose exceptions pickle
FairRunSpec == RunSpec /\ Fairness

\* timeout_wrapper called with any func
WrapperNext == RunNext \/ WorkerFinishUnpicklable

FairWrapperSpec == Init /\ [][WrapperNext]_vars /\ Fairness

----------------------------------------------------------------------------
\* Properties

Depth == Len(stack) - 1

\* A formula on which dpll() can only split: clauses of two literals or
\* more, and no pure literal
Saturated(F) ==
    /\ F # {}
    /\ \A C \in F : Cardinality(C) >= 2
    /\ \A l \in UNION F : (-l) \in UNION F

\* C1: when dpll() has returned, it has returned True if and only if some
\* truth assignment satisfies every clause of the input, whatever unit
\* clauses and split literals were picked.
C1_Verdict == Done => ((ret = "True") <=> Satisfiable(input))

\* an unsatisfiable input that only splitting can refute has been decided
C1_Witness == Done /\ ret = "False" /\ Saturated(input)

\* C2: the nesting of apply_split calls never exceeds the number of distinct
\* variables of the input, and dpll() returns eventually.
C2_Terminates ==
    /\ [](Depth <= Cardinality(VarsOf(input)))
    /\ <>Done

\* the recursion is as deep as the input has variables, twice nested
C2_Witness == Depth = Cardinality(VarsOf(input)) /\ Depth >= 2

\* C3: the second run on a clause list returns what the first run returned.
C3_SameVerdict == (run = 2 /\ Done) => ret = first

\* both runs had to draw split literals
C3_Witness == run = 2 /\ Done /\ Saturated(input) /\ ret = "True"

\* C4: a first branch that returned True ends apply_split, no CNF is built
\* for the second branch; a second branch starts only from a first branch
\* that returned False.
C4_ShortCircuit ==
    [][/\ (stack # <<>> /\ Top.pc = "first" /\ ret = "True")
          => /\ Len(stack') = Len(stack) - 1
             /\ clauses' = clauses
             /\ ret' = "True"
       /\ (Len(stack') > Len(stack) /\ Len(stack) > 0
              /\ stack'[Len(stack)].pc # "first")
          => (Top.pc = "first" /\ ret = "False")]_vars

\* the first branch has just returned True
C4_Witness == stack # <<>> /\ Top.pc = "first" /\ ret = "True"

\* C5: a formula waiting in apply_split has the clause set it had when the
\* split began, whatever its branches did; the first branch started from
\* that set plus {l}, the second from that set plus {-l}.
C5_CopyOnSplit ==
    \A i \in 1..(Len(stack) - 1) :
        LET f == stack[i]
        IN  /\ Value(literals, clauses[f.self]) = f.split_F
            /\ f.pc = "first" =>
                   stack[i + 1].entry_F = f.split_F \cup {{f.split_literal}}
            /\ f.pc = "second" =>
                   stack[i + 1].entry_F = f.split_F \cup {{-f.split_literal}}

\* a second branch is rewriting its formula after the first one failed
C5_Witness ==
    /\ Len(stack) >= 2
    /\ stack[Len(stack) - 1].pc = "second"
    /\ Top.units > 0


\* C6 as stated: no activation of dpll() that started from a formula with an
\* empty clause has a unit propagation or a pure-literal elimination applied.
C6_NoWorkOnUnsat == ({} \in op.entry_F) => ~op.result

\* C6: an activation of dpll() that started from a formula with an empty
\* clause pushes no branch and returns False; a unit propagation in it is
\* followed at once by the return, so it applies one at most.
C6_UnsatReturnsFalse ==
    [][(stack # <<>> /\ {} \in Top.entry_F)
          => /\ Len(stack') <= Len(stack)
             /\ Len(stack') < Len(stack) => ret' = "False"
             /\ Top.units = 0
             /\ Len(stack') = Len(stack) => Top'.units = 0]_vars

\* a formula with an empty clause was unit-propagated before dpll() returned
C6_Witness ==
    /\ Done /\ ret = "False"
    /\ {} \in op.entry_F /\ op.name = "apply_unit" /\ op.result

\* The clause set the claim says apply_unit leaves when it propagates u
Propagated(F, u) == {C \ {-u} : C \in {D \in F : D # {u} /\ u \notin D}}

\* C7: apply_unit returns True exactly when a unit clause is present, and
\* then, for the unit clause {u} it picked, leaves the clauses C minus {-u}
\* of the clauses C other than {u} that do not contain u.
C7_ApplyUnit ==
    op.name = "apply_unit" =>
        /\ op.result <=> (\E C \in op.before : Cardinality(C) = 1)
        /\ op.result =>
              \E u \in op.lits :
                 /\ op.lits = {u}
                 /\ {u} \in op.before
                 /\ op.after = Propagated(op.before, u)

\* one propagation removed a satisfied clause, emptied a clause and kept a
\* clause as it was
C7_Witness ==
    /\ op.name = "apply_unit" /\ op.result
    /\ \E u \in op.lits :
          /\ \E C \in op.before : u \in C /\ C # {u}
          /\ {-u} \in op.before /\ {} \notin op.before /\ {} \in op.after
          /\ \E C \in op.before \cap op.after : C # {}

\* C8: apply_pure takes as pure the literals whose negation occurs in no
\* clause, removes exactly the clauses that hold a pure literal and returns
\* True exactly when it removed a clause.
C8_ApplyPure ==
    op.name = "apply_pure" =>
        LET occurring == UNION op.before
            pure == {l \in occurring : (-l) \notin occurring}
        IN  /\ op.lits = pure
            /\ op.after = {C \in op.before : C \cap pure = {}}
            /\ op.result <=> (op.after # op.before)

\* an elimination removed a clause and kept the empty clause and another one
C8_Witness ==
    /\ op.name = "apply_pure" /\ op.result
    /\ {} \in op.after
    /\ \E C \in op.after : C # {}

\* C9: a rewrite that returned True left a formula that is satisfiable if
\* and only if the formula before it was, and the formula of an activation
\* that is simplifying is satisfiable if and only if it was on entry.
C9_Equisatisfiable ==
    /\ op.result => (Satisfiable(op.after) <=> Satisfiable(op.before))
    /\ (stack # <<>> /\ Top.pc \in {"unit", "pure", "base"}) =>
          (Satisfiable(Value(literals, clauses[Top.self]))
              <=> Satisfiable(Top.entry_F))

\* a pure literal was eliminated from a satisfiable formula in the
\* elimination loop, and clauses are left
C9_Witness ==
    /\ op.name = "apply_pure" /\ op.result
    /\ Satisfiable(op.before) /\ op.after # {}
    /\ stack # <<>> /\ Top.pc = "pure" /\ Top.pures > 0

\* The assignments of the variables V that satisfy F
ModelsOver(V, F) == {A \in SUBSET V : Satisfies(A, F)}

\* C10 as stated: the formula after a rewrite is satisfied by exactly the
\* assignments, over the variables of the formula before, that satisfy the
\* formula before.
C10_Equivalent ==
    op.result => ModelsOver(VarsOf(op.before), op.after)
                    = ModelsOver(VarsOf(op.before), op.before)

\* C10: every assignment that satisfies the formula before a rewrite
\* satisfies the formula after it, and the two formulas are satisfied by the
\* same assignments among those that make the propagated unit literal, or
\* every eliminated pure literal, true.
C10_EquivalentUnderLiterals ==
    op.result =>
        LET V == VarsOf(op.before)
            forced == {A \in SUBSET V : \A l \in op.lits : Holds(A, l)}
        IN  /\ ModelsOver(V, op.before) \subseteq ModelsOver(V, op.after)
            /\ ModelsOver(V, op.before) \cap forced
                  = ModelsOver(V, op.after) \cap forced

\* a rewrite left a formula with more satisfying assignments than before
C10_Witness ==
    /\ op.result
    /\ ModelsOver(VarsOf(op.before), op.before) # {}
    /\ ModelsOver(VarsOf(op.before), op.after)
          # ModelsOver(VarsOf(op.before), op.before)

\* C11: apply_unit on a clause set with no unit clause and apply_pure on a
\* clause set with no pure literal return False, and the clause set of the
\* formula after the call is the clause set before it.
C11_NoChange ==
    /\ (op.name = "apply_unit" /\ \A c \in op.before : Cardinality(c) # 1)
          => /\ ~op.result
             /\ op.after = op.before
             /\ (stack # <<>> /\ Top.pc = "pure")
                   => Value(literals, clauses[Top.self]) = op.before
    /\ (op.name = "apply_pure"
            /\ \A l \in UNION op.before : (-l) \in UNION op.before)
          => /\ ~op.result
             /\ op.after = op.before
             /\ (stack # <<>> /\ Top.pc = "base")
                   => Value(literals, clauses[Top.self]) = op.before

\* apply_pure has just returned False on a formula that still has clauses,
\* after apply_unit returned False on it
C11_Witness ==
    /\ op.name = "apply_pure" /\ ~op.result
    /\ op.before # {}
    /\ stack # <<>> /\ Top.pc = "base" /\ Top.units = 0 /\ Top.pures = 0
    /\ Value(literals, clauses[Top.self]) = op.before

\* C12: clauses are equal exactly when their literal sets are, so no CNF
\* holds two Clause objects with the same literals; the CNF constructed
\* from a clause list with repeated clauses has the clause set, the
\* len(clauses) and the num_clauses of the list without the repetitions,
\* and dpll() returns on it what it returns on the CNF constructed from
\* the list without the repetitions.
C12_Duplicates ==
    /\ \A k \in DOMAIN clauses : \A c, d \in clauses[k] :
           (literals[c] = literals[d]) <=> (c = d)
    /\ run >= 1 => num_clauses[1] = Cardinality(input)
    /\ (run >= 1 /\ stack # <<>>) => stack[1].entry_F = input
    /\ (run >= 1 /\ Len(stack) = 1 /\ Top.pc = "unit" /\ Top.units = 0)
          => Cardinality(clauses[1]) = Cardinality(input)
    /\ (run = 2 /\ Done) => ret = first

\* both runs have ended and the first clause list repeated two clauses
C12_Witness ==
    /\ run = 2 /\ Done
    /\ Cardinality(copies) >= 2
    /\ Len(ClauseList) > num_clauses[1]

\* C13: no call of the core raises: a run never ends in an exception, every
\* apply_unit and apply_pure call yields a boolean, an activation that waits
\* for a branch of its split has a boolean to continue with once the branch
\* has ended, dpll() ends with True or False, and on the formula with zero
\* clauses it ends with True.
C13_NoError ==
    /\ ret # "raise"
    /\ op.result \in BOOLEAN
    /\ (stack # <<>> /\ Top.pc \in {"first", "second"})
          => ret \in {"True", "False"}
    /\ Done => ret \in {"True", "False"}
    /\ (Done /\ input = {}) => ret = "True"

\* dpll() has ended in RecursionError on a formula that is satisfiable
C13_RecursionError ==
    /\ Done /\ ret = "raise"
    /\ Satisfiable(input)
    /\ op.name = "apply_pure" /\ ~op.result

Abs(l) == IF l < 0 THEN -l ELSE l

\* C18: a step of the propagation loop that applies apply_unit checks
\* is_unsat() on the result at once: if the clause set after the propagation
\* holds an empty clause the activation returns False in that very step,
\* otherwise it stays in the loop; so no activation that has propagated a
\* unit goes on to a further apply_unit, apply_pure or apply_split with an
\* empty clause in its formula.
C18_CheckedAfterUnit ==
    /\ [][(/\ stack # <<>> /\ Top.pc = "unit"
           /\ \E c \in Value(literals, clauses[Top.self]) : Cardinality(c) = 1)
          => /\ op'.name = "apply_unit" /\ op'.result
             /\ op'.after = Value(literals', clauses'[Top.self])
             /\ IF {} \in op'.after
                THEN stack' = Pop(stack) /\ ret' = "False"
                ELSE /\ Len(stack') = Len(stack)
                     /\ stack'[Len(stack)].pc = "unit"]_vars
    /\ [](\A i \in 1..Len(stack) :
            (stack[i].units > 0 /\ stack[i].pc \in {"unit", "pure", "base"})
               => {} \notin Value(literals, clauses[stack[i].self]))

\* a propagation has produced an empty clause beside a unit clause, and the
\* activation has returned False
C18_Witness ==
    /\ op.name = "apply_unit" /\ op.result
    /\ {} \notin op.before /\ {} \in op.after
    /\ \E c \in op.after : Cardinality(c) = 1
    /\ ret = "False"

\* C19: an activation that is about to call apply_split (neither is_sat()
\* nor is_unsat() holds after the two loops) has a formula with at least one
\* clause, every clause of two literals or more, and no pure literal; its
\* literal set is not empty, so apply_split never takes its `return False`
\* for an empty literal set.  The formula recorded at each split is such a
\* formula.
C19_SplitOnSaturated ==
    /\ (/\ stack # <<>> /\ Top.pc = "base"
        /\ ~is_sat(clauses[Top.self])
        /\ ~is_unsat(literals, clauses[Top.self]))
          => /\ Saturated(Value(literals, clauses[Top.self]))
             /\ get_literals(literals, clauses[Top.self]) # {}
    /\ \A i \in 1..Len(stack) :
          stack[i].pc \in {"first", "second"}
             => /\ Saturated(stack[i].split_F)
                /\ stack[i].split_literal \in UNION stack[i].split_F

\* an activation is about to split after a unit propagation of its own
C19_Witness ==
    /\ stack # <<>> /\ Top.pc = "base" /\ Top.units > 0
    /\ ~is_sat(clauses[Top.self])
    /\ ~is_unsat(literals, clauses[Top.self])

\* C20: after apply_unit has propagated u, neither u nor -u occurs in the
\* clause set and the clause set has fewer clauses than before; an
\* activation for a branch of a split that has left its propagation loop
\* has no occurrence of the variable split on; the variables at a split
\* inside a branch are a proper subset of the variables at the split that
\* made the branch; and the splits on the stack are on different variables.
C20_VariablesShrink ==
    /\ (op.name = "apply_unit" /\ op.result)
          => /\ \A u \in op.lits : u \notin UNION op.after
                                   /\ (-u) \notin UNION op.after
             /\ Cardinality(op.after) < Cardinality(op.before)
    /\ \A i \in 2..Len(stack) :
          stack[i].pc \in {"pure", "base", "first", "second"}
             => Abs(stack[i - 1].split_literal)
                   \notin VarsOf(Value(literals, clauses[stack[i].self]))
    /\ \A i, j \in 1..Len(stack) :
          (i < j /\ stack[j].pc \in {"first", "second"})
             => /\ VarsOf(stack[j].split_F) \subseteq VarsOf(stack[i].split_F)
                /\ VarsOf(stack[j].split_F) # VarsOf(stack[i].split_F)
                /\ Abs(stack[j].split_literal) # Abs(stack[i].split_literal)

\* a split inside the second branch of a split
C20_Witness ==
    /\ Len(stack) >= 3
    /\ stack[1].pc = "second" /\ stack[2].pc \in {"first", "second"}
    /\ stack[2].units > 0

\* C21: an activation of dpll() whose formula holds an empty clause keeps it
\* through every step: while the activation runs, whatever apply_unit or
\* apply_pure has done, is_unsat() is true of its formula, and the step that
\* ends the activation returns False.  Such an activation never splits.
C21_EmptyClauseStays ==
    /\ [][\A i \in 1..Len(stack) :
            is_unsat(literals, clauses[stack[i].self])
               => IF Len(stack') >= i /\ stack'[i].self = stack[i].self
                  THEN is_unsat(literals', clauses'[stack[i].self])
                  ELSE /\ i = Len(stack)
                       /\ stack' = Pop(stack)
                       /\ ret' = "False"]_vars
    /\ [](\A i \in 1..Len(stack) :
            is_unsat(literals, clauses[stack[i].self])
               => stack[i].pc \in {"unit", "pure", "base"})

\* dpll() has returned False on a formula with an empty clause after
\* apply_pure has removed clauses beside it
C21_Witness ==
    /\ Done /\ ret = "False"
    /\ op.name = "apply_pure"
    /\ {} \in op.entry_F /\ {} \in op.after
    /\ op.after # op.entry_F

\* C14: parse_dimacs returns a formula only for a text with no defect: a
\* text with no problem line, with a problem line whose counts are not
\* integers, with a last clause that no 0 closes, or with a clause token
\* that is not an integer ends in an exception.
C14_RejectsMalformed == outcome = "returned" => defects = {}

\* a formula has been returned although a clause token was no integer: the
\* token was replaced by the literal read before it
C14_SwallowedLiteral ==
    /\ outcome = "returned"
    /\ defects = {"bad_literal"}
    /\ Len(clause_list) = 2 /\ Len(groups) = 2
    /\ groups[2] = {} /\ clause_list[2] = clause_list[1]

\* a formula has been returned although a count of the problem line was no
\* integer
C14_SwallowedCount ==
    /\ outcome = "returned"
    /\ defects = {"header_count"}
    /\ -1 \in {declared.num_literals, declared.num_clauses}

\* what parse_dimacs does reject: a last clause left open, a problem line
\* with the wrong fields, and clause text before the problem line
C14_RejectedDefects ==
    outcome = "returned"
       => /\ defects \subseteq {"bad_literal", "header_count", "header_missing"}
          /\ "header_missing" \in defects => nlines = 0 \/ clause_list = <<>>

\* C15 as stated: a text with no defect is parsed without an exception, and
\* the clause list of the formula is the list of its 0-terminated groups.
C15_WellFormedParsed ==
    (defects = {} /\ outcome # "none")
       => (outcome = "returned" /\ clause_list = groups)

\* C15, amended: a text with no defect in which every 0 ends its line is
\* parsed without an exception, and the clause list of the formula is the
\* list of its 0-terminated groups, in the order of the text; while it is
\* read, the clauses appended so far are the groups closed so far and
\* current_literals holds the integers read since the last 0, whatever
\* blank lines, comment lines and line breaks the text has.
C15_WellFormedLineEnd ==
    (defects = {} /\ ~midzero)
       => /\ outcome \in {"none", "returned"}
          /\ clause_list = groups
          /\ current_literals = group
          /\ outcome = "returned" => (header_seen /\ current_literals = {})

\* a formula of two clauses has been returned, the first one read from two
\* lines
C15_Witness ==
    /\ outcome = "returned"
    /\ defects = {} /\ ~midzero
    /\ clause_list = <<{1, -1}, {-1}>>
    /\ nlines = MaxLines

\* C16: a run has one outcome: none while the supervisor is inside
\* timeout_wrapper, and afterwards the one that run_test appended to
\* test_results.  SAT and UNSAT are reported only with the boolean dpll()
\* returned in the worker; TIMEOUT only if the worker was alive when
\* join(timeout_seconds) returned, and then SIGTERM has been sent and the
\* worker has ended; no worker is alive once the supervisor is outside
\* timeout_wrapper.
C16_OneOutcome ==
    /\ sup \in {"join", "is_alive", "terminate", "join2", "get"}
          => report = "none"
    /\ (sup = "idle" /\ test_results # <<>>)
          => /\ report \in {"SAT", "UNSAT", "TIMEOUT"}
             /\ test_results[Len(test_results)] = report
    /\ sup = "crashed" => report = "FunctionException"
    /\ report = "SAT" => returned = "True"
    /\ report = "UNSAT" => returned = "False"
    /\ report = "TIMEOUT" => (alive_at_join /\ sigterm /\ ~Alive)
    /\ sup \in {"idle", "crashed"} => ~Alive

\* TIMEOUT has been reported for a worker in which dpll() had returned, and
\* which SIGTERM ended before it had exited
C16_Witness ==
    /\ report = "TIMEOUT" /\ sup = "idle"
    /\ returned = "True" /\ process = "terminated"
    /\ Len(test_results) = MaxFiles

\* C17 as stated: when dpll() has raised in the worker, the run ends with
\* FunctionException and with nothing else.
C17_NeverMasked ==
    (returned = "exception" /\ report # "none") => report = "FunctionException"

\* What holds of an exception in the worker: the message put on
\* the queue is the failure message, the run is never reported as SAT or
\* UNSAT, and if the worker had ended when join(timeout_seconds) returned
\* the run ends with FunctionException, which run_test lets through; the
\* run is reported as TIMEOUT only if the worker was still alive then.
C17_MaskedByTimeoutOnly ==
    returned = "exception"
       => /\ \A i \in 1..Len(queue) : ~queue[i].success
          /\ report \in {"none", "FunctionException", "TIMEOUT"}
          /\ report = "TIMEOUT" => alive_at_join
          /\ (report # "none" /\ ~alive_at_join)
                => (report = "FunctionException" /\ sup = "crashed")

\* the exception of the worker has left run_test as FunctionException
C17_Propagated ==
    /\ returned = "exception"
    /\ report = "FunctionException" /\ sup = "crashed"
    /\ process = "exited"

\* dpll() raised in the worker, the failure message did not fit into the
\* pipe, and the run was reported as TIMEOUT
C17_ReportedAsTimeout ==
    /\ returned = "exception"
    /\ report = "TIMEOUT"
    /\ queue # <<>> /\ queue[1].large

\* C22: every call of timeout_wrapper ends, by a return or by an exception,
\* whether func returns, raises or never ends.  When the supervisor finds
\* the worker not alive after join(timeout_seconds), the worker has exited
\* by itself and exactly one message, holding what func ended with, is on
\* the queue, so queue.get() has a message to take; when it finds the worker
\* alive, the worker is sent SIGTERM, is no longer alive when process.join()
\* returns, and the call raises TimeoutError.
C22_CallEnds ==
    /\ (sup = "join") ~> (sup \in {"idle", "crashed"})
    /\ []((sup \in {"is_alive", "get"} /\ ~Alive)
             => /\ process = "exited"
                /\ Len(queue) = 1
                /\ queue[1].payload = returned
                /\ queue[1].success = (returned # "exception"))
    /\ (sup = "terminate")
          ~> (sup = "idle" /\ ~Alive /\ sigterm /\ report = "TIMEOUT")

\* func has ended with a result that cannot be pickled: the worker has
\* exited by itself, the queue holds no message and the supervisor is in
\* queue.get(), which no step ends
C22_GetBlocks ==
    /\ sup = "get" /\ queue = <<>>
    /\ process = "exited" /\ returned = "unpicklable"
    /\ ~alive_at_join

====
